---- MODULE Spec2Model ----
(***************************************************************************)
(* The inquiry endpoint of Kumagaya Kids English (src/server.ts): the      *)
(* sanitizers, the express-validator rule set, formatInquiry, the Telegram *)
(* notifier, the simulated confirmation mail and the POST /api/inquiry     *)
(* handler that strings them together.                                     *)
(*                                                                         *)
(* Text is a sequence of one-character strings.  A JavaScript value is a   *)
(* record [t, v]: t is its type tag and v its content (the characters of a *)
(* string, the decimal text of a number, the elements of an array).        *)
(***************************************************************************)
EXTENDS Integers, Sequences, FiniteSets, TLC

VARIABLES
    pc,               \* position of the request in the handler
    parseError,       \* the error express.json() raised on the body ("none": parsed)
    request,          \* the JSON body as the client sent it
    body,             \* req.body
    errors,           \* validationResult(req).array()
    sanitizedData,    \* the handler's sanitizedData
    formattedInquiry, \* the handler's formattedInquiry
    telegramSuccess,  \* the handler's telegramSuccess
    emailSuccess,     \* the handler's emailSuccess
    outbound,         \* the axios.post in flight: what the endpoint will do
    response,         \* what res.status(..).json(..) sent
    events,           \* the calls made so far, in order
    fnName,           \* the function under evaluation (function-level runs)
    fnArg,            \* its argument
    fnOut,            \* its successive results
    ariaExpanded,     \* the hamburger's aria-expanded attribute ("null": absent)
    navActive,        \* whether the nav menu's classList has 'active'
    overflow,         \* document.body.style.overflow
    innerWidth,       \* window.innerWidth
    activeElement     \* the element that has the focus

vars == <<pc, parseError, request, body, errors, sanitizedData, formattedInquiry, telegramSuccess,
          emailSuccess, outbound, response, events, fnName, fnArg, fnOut,
          ariaExpanded, navActive, overflow, innerWidth, activeElement>>

handlerVars == <<pc, parseError, request, body, errors, sanitizedData, formattedInquiry,
                 telegramSuccess, emailSuccess, outbound, response, events>>

fnVars == <<fnName, fnArg, fnOut>>

menuVars == <<ariaExpanded, navActive, overflow, innerWidth, activeElement>>

---------------------------------------------------------------------------
(* Bounds of the function-level runs. *)

\* Longest generated text argument.
MaxLen == 3

\* How many times in a row a sanitizer is applied to its own result.
MaxApply == 2

\* How far, in pixels, the window widths reach on either side of the breakpoint.
WidthSpan == 12

---------------------------------------------------------------------------
(* JavaScript values. *)

Str(s) == [t |-> "string", v |-> s]
Num(s) == [t |-> "number", v |-> s]
Arr(xs) == [t |-> "array", v |-> xs]
Undefined == [t |-> "undefined", v |-> <<>>]
\* An exception leaving a function (a TypeError here).
Thrown == [t |-> "throw", v |-> <<>>]

IsThrown(x) == x.t = "throw"

\* Values compare by tag first: contents of different tags are never compared.
SameValue(a, b) == a.t = b.t /\ a.v = b.v

---------------------------------------------------------------------------
(* Characters and the String.prototype methods the code calls. *)

\* White space and line terminators of ECMAScript: what trim() strips and what
\* \s matches.  Characters no string here can hold are tokens: U+000B is the
\* vertical tab, U+00A0 the no-break space, U+FEFF the byte order mark,
\* U+2028 and U+2029 the line and paragraph separators, the others the
\* space separators of Unicode.
WhitespaceChars ==
    {" ", "\t", "\n", "\r", "\f", "U+000B", "U+00A0", "U+1680",
     "U+2000", "U+2001", "U+2002", "U+2003", "U+2004", "U+2005", "U+2006",
     "U+2007", "U+2008", "U+2009", "U+200A", "U+2028", "U+2029", "U+202F",
     "U+205F", "U+3000", "U+FEFF"}
Digits == {"0", "1", "2", "3", "4", "5", "6", "7", "8", "9"}
UpperLetters == <<"A","B","C","D","E","F","G","H","I","J","K","L","M",
                  "N","O","P","Q","R","S","T","U","V","W","X","Y","Z">>
LowerLetters == <<"a","b","c","d","e","f","g","h","i","j","k","l","m",
                  "n","o","p","q","r","s","t","u","v","w","x","y","z">>
AsciiLetters == {UpperLetters[i] : i \in 1..26} \cup {LowerLetters[i] : i \in 1..26}
\* Representatives of the ranges U+3040-309F, U+30A0-30FF and U+4E00-9FAF,
\* one token each.
JapaneseChars == {"U+3042", "U+30A2", "U+4E00"}

Range(s) == {s[i] : i \in 1..Len(s)}

Concat(ss) ==
    LET F[i \in 0..Len(ss)] == IF i = 0 THEN <<>> ELSE F[i - 1] \o ss[i]
    IN  F[Len(ss)]

\* s.replace(/[set]/g, '')
RemoveAll(s, set) == SelectSeq(s, LAMBDA c : c \notin set)

\* String.prototype.trim
trim(s) ==
    LET idx == {i \in 1..Len(s) : s[i] \notin WhitespaceChars}
    IN  IF idx = {} THEN <<>>
        ELSE LET lo == CHOOSE i \in idx : \A j \in idx : i <= j
                 hi == CHOOSE i \in idx : \A j \in idx : i >= j
             IN  SubSeq(s, lo, hi)

LowerOf(c) ==
    IF \E i \in 1..26 : UpperLetters[i] = c
    THEN LowerLetters[CHOOSE i \in 1..26 : UpperLetters[i] = c]
    ELSE c

\* String.prototype.toLowerCase
toLowerCase(s) == [i \in 1..Len(s) |-> LowerOf(s[i])]

\* Array.prototype.join(',') of an array of strings (Array.prototype.toString).
Join(xs) ==
    LET F[i \in 0..Len(xs)] ==
            IF i = 0 THEN <<>>
            ELSE IF i = 1 THEN xs[1]
            ELSE F[i - 1] \o <<",">> \o xs[i]
    IN  F[Len(xs)]

---------------------------------------------------------------------------
(* The sanitizers, src/server.ts 47-70. *)

escapeMap ==
    [c \in {"&", "<", ">", "\"", "'"} |->
        CASE c = "&"  -> <<"&","a","m","p",";">>
          [] c = "<"  -> <<"&","l","t",";">>
          [] c = ">"  -> <<"&","g","t",";">>
          [] c = "\"" -> <<"&","q","u","o","t",";">>
          [] c = "'"  -> <<"&","#","x","2","7",";">>]

\* The replacer of the second replace: escapeMap[match] || match.
escapeNoQuote(c) ==
    IF c \in {"&", "<", ">"} THEN escapeMap[c] ELSE <<c>>

escape(c) ==
    IF c \in DOMAIN escapeMap THEN escapeMap[c] ELSE <<c>>

sanitizeInput(input) ==
    IF input.t # "string" THEN Str(<<>>)
    ELSE LET kept == RemoveAll(trim(input.v), {"<", ">"})
         IN  Str(Concat([i \in 1..Len(kept) |-> escape(kept[i])]))

PhoneChars == Digits \cup {"+", "-", "(", ")", " "}

\* phone.replace(...): a value that is no string has no replace method.
sanitizePhone(phone) ==
    IF phone.t # "string" THEN Thrown
    ELSE Str(SelectSeq(phone.v, LAMBDA c : c \in PhoneChars))

\* email.toLowerCase(): a value that is no string has no toLowerCase method.
sanitizeEmailTrimOne(email) ==
    IF email.t # "string" THEN Thrown
    ELSE LET s == toLowerCase(email.v)
         IN  Str(IF s # <<>> /\ s[1] \in WhitespaceChars THEN Tail(s) ELSE s)

sanitizeEmail(email) ==
    IF email.t # "string" THEN Thrown
    ELSE Str(trim(toLowerCase(email.v)))

---------------------------------------------------------------------------
(* express-validator, as the rule set of src/server.ts 150-185 uses it.    *)
(* A chain is a list of items run in order on one field of req.body.  A    *)
(* standard validator is applied to the field's text, or to each element   *)
(* when the field is an array, and adds one error per failing text; no     *)
(* item stops the chain.  A sanitizer replaces the field by the sanitized  *)
(* text (element-wise for an array).  An optional chain is skipped when    *)
(* the field is undefined.                                                 *)

\* express-validator's toString of a scalar field value.
toStr(value) == IF value.t \in {"string", "number"} THEN value.v ELSE <<>>

RECURSIVE Split(_, _)
\* String.prototype.split(sep), sep one character.
Split(s, sep) ==
    IF \A i \in 1..Len(s) : s[i] # sep THEN <<s>>
    ELSE LET k == CHOOSE i \in 1..Len(s) :
                      s[i] = sep /\ \A j \in 1..(i - 1) : s[j] # sep
         IN  <<SubSeq(s, 1, k - 1)>> \o Split(SubSeq(s, k + 1, Len(s)), sep)

DigitVal(c) == CHOOSE n \in 0..9 : <<"0","1","2","3","4","5","6","7","8","9">>[n + 1] = c

\* The value of a text of digits.
DigitsVal(s) ==
    LET F[i \in 0..Len(s)] == IF i = 0 THEN 0 ELSE 10 * F[i - 1] + DigitVal(s[i])
    IN  F[Len(s)]

RECURSIVE NatToText(_)
NatToText(n) ==
    IF n < 10 THEN <<(<<"0","1","2","3","4","5","6","7","8","9">>)[n + 1]>>
    ELSE NatToText(n \div 10) \o NatToText(n % 10)

\* Number.prototype.toString of an integer.
IntToText(n) == IF n < 0 THEN <<"-">> \o NatToText(0 - n) ELSE NatToText(n)

\* /^[-+]?[0-9]+$/ : validator.js isInt's pattern, leading zeroes allowed.
IsIntText(s) ==
    LET d == IF s # <<>> /\ s[1] \in {"-", "+"} THEN Tail(s) ELSE s
    IN  d # <<>> /\ \A i \in 1..Len(d) : d[i] \in Digits

\* The number a text matching IsIntText denotes.
IntTextVal(s) ==
    IF s[1] = "-" THEN 0 - DigitsVal(Tail(s))
    ELSE IF s[1] = "+" THEN DigitsVal(Tail(s))
    ELSE DigitsVal(s)

\* validator.js isInt(str, {min, max})
isInt(s, min, max) ==
    IsIntText(s) /\ IntTextVal(s) >= min /\ IntTextVal(s) <= max

\* The class of /^[a-zA-Z\s\u3040-\u309F\u30A0-\u30FF\u4E00-\u9FAF]+$/
NameChars == AsciiLetters \cup WhitespaceChars \cup JapaneseChars

\* regex.test(s) for /^[chars]{min,max}$/ ; max < 0 stands for no upper limit.
matches(s, chars, min, max) ==
    /\ Len(s) >= min
    /\ max < 0 \/ Len(s) <= max
    /\ \A i \in 1..Len(s) : s[i] \in chars

\* validator.js isLength(str, {min, max}); max < 0 stands for no upper limit.
isLength(s, min, max) == Len(s) >= min /\ (max < 0 \/ Len(s) <= max)

\* validator.js isEmpty(str)
isEmpty(s) == Len(s) = 0

\* validator.js isEmail with its default options, for an unquoted local part:
\* one '@'; the local part at most 64 long, its dot-separated pieces non-empty
\* and of atom characters; the domain a fully qualified name whose last label
\* is alphabetic and at least 2 long.
EmailUserChars ==
    AsciiLetters \cup Digits \cup JapaneseChars \cup
    {"!", "#", "$", "%", "&", "'", "*", "+", "-", "/", "=", "?", "^", "_",
     "{", "|", "}", "~"}   \* and the backquote, which no TLA+ string can hold
DomainChars == AsciiLetters \cup Digits \cup JapaneseChars \cup {"-"}

isFQDN(d) ==
    LET labels == Split(d, ".")
        tld == labels[Len(labels)]
    IN  /\ Len(labels) >= 2
        /\ Len(tld) >= 2
        /\ \A i \in 1..Len(tld) : tld[i] \in AsciiLetters \cup JapaneseChars
        /\ \A k \in 1..Len(labels) :
              /\ Len(labels[k]) \in 1..63
              /\ \A i \in 1..Len(labels[k]) : labels[k][i] \in DomainChars
              /\ labels[k][1] # "-"
              /\ labels[k][Len(labels[k])] # "-"

isEmail(s) ==
    LET parts == Split(s, "@")
    IN  /\ Len(parts) = 2
        /\ Len(parts[1]) <= 64
        /\ Len(parts[2]) <= 254
        /\ \A piece \in Range(Split(parts[1], ".")) :
              piece # <<>> /\ \A i \in 1..Len(piece) : piece[i] \in EmailUserChars
        /\ isFQDN(parts[2])

\* validator.js normalizeEmail with its default options, for a domain without
\* provider-specific rules (not gmail, icloud, outlook, yahoo, yandex): the
\* text after the last '@' and the text before it are lower-cased and joined
\* by '@' again (a text without '@' is all domain, after an empty local part).
normalizeEmail(s) ==
    IF \A i \in 1..Len(s) : s[i] # "@" THEN <<"@">> \o toLowerCase(s)
    ELSE toLowerCase(s)

\* validator.js isIn(str, values)
isIn(s, values) == s \in values

\* The items of a chain.
Trim == [kind |-> "sanitizer", fn |-> "trim"]
NormalizeEmail == [kind |-> "sanitizer", fn |-> "normalizeEmail"]
NotEmpty(msg) == [kind |-> "validator", fn |-> "notEmpty", msg |-> msg]
IsLength(min, max, msg) ==
    [kind |-> "validator", fn |-> "isLength", min |-> min, max |-> max, msg |-> msg]
Matches(chars, min, max, msg) ==
    [kind |-> "validator", fn |-> "matches", chars |-> chars, min |-> min,
     max |-> max, msg |-> msg]
IsInt(min, max, msg) ==
    [kind |-> "validator", fn |-> "isInt", min |-> min, max |-> max, msg |-> msg]
IsEmail(msg) == [kind |-> "validator", fn |-> "isEmail", msg |-> msg]
IsIn(values, msg) == [kind |-> "validator", fn |-> "isIn", values |-> values, msg |-> msg]

\* Whether text s passes the validator item.
Passes(item, s) ==
    CASE item.fn = "notEmpty" -> ~isEmpty(s)
      [] item.fn = "isLength" -> isLength(s, item.min, item.max)
      [] item.fn = "matches"  -> matches(s, item.chars, item.min, item.max)
      [] item.fn = "isInt"    -> isInt(s, item.min, item.max)
      [] item.fn = "isEmail"  -> isEmail(s)
      [] item.fn = "isIn"     -> isIn(s, item.values)

\* The text a sanitizer item makes of text s.
Sanitized(item, s) ==
    CASE item.fn = "trim"           -> trim(s)
      [] item.fn = "normalizeEmail" -> normalizeEmail(s)

\* The texts an item is applied to: the elements of an array, else the one text.
TextsOf(value) == IF value.t = "array" THEN value.v ELSE <<toStr(value)>>

\* One item run on a field: the field's new value and the errors it adds.
RunItem(field, item, value) ==
    IF item.kind = "sanitizer"
    THEN [value |-> IF value.t = "array"
                    THEN Arr([i \in 1..Len(value.v) |-> Sanitized(item, value.v[i])])
                    ELSE Str(Sanitized(item, toStr(value))),
          errs  |-> <<>>]
    ELSE [value |-> value,
          errs  |-> LET texts == TextsOf(value)
                        bad == SelectSeq([i \in 1..Len(texts) |-> i],
                                         LAMBDA i : ~Passes(item, texts[i]))
                    IN  [k \in 1..Len(bad) |-> [field |-> field, msg |-> item.msg]]]

---------------------------------------------------------------------------
(* The rule set inquiryValidation, src/server.ts 150-185. *)

Fields == <<"parentName", "childName", "childAge", "email", "phone",
            "preferredProgram", "message">>
FieldSet == Range(Fields)
RequiredFields == {"parentName", "childName", "childAge", "email", "phone"}

K_toddlers == <<"t","o","d","d","l","e","r","s">>
K_preschool == <<"p","r","e","s","c","h","o","o","l">>
K_lower_elementary == <<"l","o","w","e","r","-","e","l","e","m","e","n","t","a","r","y">>
K_upper_elementary == <<"u","p","p","e","r","-","e","l","e","m","e","n","t","a","r","y">>
K_not_sure == <<"n","o","t","-","s","u","r","e">>

AllowedPrograms ==
    {K_toddlers, K_preschool, K_lower_elementary, K_upper_elementary, K_not_sure, <<>>}

parentNameChain ==
    [field |-> "parentName", optional |-> FALSE, items |->
        <<Trim,
          NotEmpty("Parent name is required"),
          IsLength(2, 100, "Parent name must be between 2 and 100 characters"),
          Matches(NameChars, 1, 0 - 1, "Parent name contains invalid characters")>>]

childNameChain ==
    [field |-> "childName", optional |-> FALSE, items |->
        <<Trim,
          NotEmpty("Child name is required"),
          IsLength(2, 100, "Child name must be between 2 and 100 characters"),
          Matches(NameChars, 1, 0 - 1, "Child name contains invalid characters")>>]

childAgeChain ==
    [field |-> "childAge", optional |-> FALSE, items |->
        <<IsInt(2, 12, "Child age must be between 2 and 12 years")>>]

emailChain ==
    [field |-> "email", optional |-> FALSE, items |->
        <<Trim,
          NotEmpty("Email is required"),
          IsEmail("Please provide a valid email address"),
          NormalizeEmail>>]

phoneChain ==
    [field |-> "phone", optional |-> FALSE, items |->
        <<Trim,
          NotEmpty("Phone number is required"),
          Matches(PhoneChars, 10, 20, "Please provide a valid phone number")>>]

preferredProgramChain ==
    [field |-> "preferredProgram", optional |-> TRUE, items |->
        <<IsIn(AllowedPrograms, "Invalid program selection")>>]

messageChain ==
    [field |-> "message", optional |-> TRUE, items |->
        <<Trim,
          IsLength(0, 1000, "Message must not exceed 1000 characters")>>]

inquiryValidation ==
    <<parentNameChain, childNameChain, childAgeChain, emailChain, phoneChain,
      preferredProgramChain, messageChain>>

\* How the errors of one more item join those found so far.
AccumulateFirstOnly(found, more) == IF found # <<>> THEN found ELSE more

Accumulate(found, more) == found \o more

\* A chain run on its field: the field's final value and the chain's errors.
\* (The result of the items before is bound as a value, computed once.)
RunChain(chain, value) ==
    LET items == chain.items
        F[i \in 0..Len(items)] ==
            IF i = 0 THEN [value |-> value, errs |-> <<>>]
            ELSE CHOOSE next \in
                     {LET r == RunItem(chain.field, items[i], prev.value)
                      IN  [value |-> r.value, errs |-> Accumulate(prev.errs, r.errs)] :
                          prev \in {F[i - 1]}} : TRUE
    IN  IF chain.optional /\ value.t = "undefined"
        THEN [value |-> value, errs |-> <<>>]
        ELSE F[Len(items)]

\* The middleware array run on req.body b, chain after chain: the body as the
\* sanitizers leave it, and validationResult(req).array().
RunValidationChains(b) ==
    LET F[i \in 0..Len(inquiryValidation)] ==
            IF i = 0 THEN [body |-> b, errors |-> <<>>]
            ELSE LET c == inquiryValidation[i]
                 IN  CHOOSE next \in
                         UNION {{[body   |-> [prev.body EXCEPT ![c.field] = r.value],
                                  errors |-> Accumulate(prev.errors, r.errs)] :
                                     r \in {RunChain(c, prev.body[c.field])}} :
                                prev \in {F[i - 1]}} : TRUE
    IN  F[Len(inquiryValidation)]

---------------------------------------------------------------------------
(* The JavaScript operations the handler and formatInquiry apply to values. *)

\* ToBoolean
Truthy(x) ==
    CASE x.t = "string"    -> x.v # <<>>
      [] x.t = "number"    -> x.v \notin {<<"0">>, <<"N","a","N">>}
      [] x.t = "undefined" -> FALSE
      [] OTHER             -> TRUE

FnPrefix == <<"f","u","n","c","t","i","o","n"," ">>
FnSuffix == <<"(",")"," ","{"," ","[","n","a","t","i","v","e"," ","c","o","d","e","]"," ","}">>
ObjectObject == <<"[","o","b","j","e","c","t"," ","O","b","j","e","c","t","]">>
UndefinedText == <<"u","n","d","e","f","i","n","e","d">>
NaNText == <<"N","a","N">>

\* ToString, as a template literal and a property access apply it.
Render(x) ==
    CASE x.t = "string"    -> x.v
      [] x.t = "number"    -> x.v
      [] x.t = "array"     -> Join(x.v)
      [] x.t = "function"  -> FnPrefix \o x.v \o FnSuffix
      [] x.t = "object"    -> ObjectObject
      [] x.t = "undefined" -> UndefinedText

\* x.toString(): undefined has no properties.
toStringMethod(x) == IF x.t = "undefined" THEN Thrown ELSE Str(Render(x))

\* parseInt(text) in radix 10: leading white space, a sign, then the longest
\* run of digits; NaN when there is none.  (No text here starts with 0x.)
parseInt(s) ==
    LET idx == {i \in 1..Len(s) : s[i] \notin WhitespaceChars}
        t == IF idx = {} THEN <<>>
             ELSE SubSeq(s, CHOOSE i \in idx : \A j \in idx : i <= j, Len(s))
        u == IF t # <<>> /\ t[1] \in {"+", "-"} THEN Tail(t) ELSE t
        n == CHOOSE k \in 0..Len(u) :
                 /\ \A i \in 1..k : u[i] \in Digits
                 /\ k < Len(u) => u[k + 1] \notin Digits
        val == DigitsVal(SubSeq(u, 1, n))
    IN  IF n = 0 THEN Num(NaNText)
        ELSE Num(IntToText(IF t[1] = "-" THEN 0 - val ELSE val))

---------------------------------------------------------------------------
(* formatInquiry, src/server.ts 73-113. *)

L_toddlers == <<"T","o","d","d","l","e","r","s"," ","(","A","g","e","s"," ","2","-","3",")">>
L_preschool == <<"P","r","e","s","c","h","o","o","l"," ","(","A","g","e","s"," ","4","-","5",")">>
L_lower_elementary == <<"L","o","w","e","r"," ","E","l","e","m","e","n","t","a","r","y"," ","(","A","g","e","s"," ","6","-","8",")">>
L_upper_elementary == <<"U","p","p","e","r"," ","E","l","e","m","e","n","t","a","r","y"," ","(","A","g","e","s"," ","9","-","1","2",")">>
L_not_sure == <<"N","o","t"," ","s","u","r","e"," ","y","e","t">>
L_not_specified == <<"N","o","t"," ","s","p","e","c","i","f","i","e","d">>
NoMessage ==
    <<"N","o"," ","a","d","d","i","t","i","o","n","a","l"," ","m","e","s","s","a","g","e",
      " ","p","r","o","v","i","d","e","d",".">>

\* The own properties of the object literal programNames.
programNames ==
    (K_toddlers :> L_toddlers) @@ (K_preschool :> L_preschool) @@
    (K_lower_elementary :> L_lower_elementary) @@
    (K_upper_elementary :> L_upper_elementary) @@
    (K_not_sure :> L_not_sure) @@ (<<>> :> L_not_specified)

\* programNames is a plain object: a key it does not own is looked up on
\* Object.prototype, whose properties are these (name -> the function's name).
P_constructor == <<"c","o","n","s","t","r","u","c","t","o","r">>
P_toString == <<"t","o","S","t","r","i","n","g">>
P_valueOf == <<"v","a","l","u","e","O","f">>
P_hasOwnProperty == <<"h","a","s","O","w","n","P","r","o","p","e","r","t","y">>
P_isPrototypeOf == <<"i","s","P","r","o","t","o","t","y","p","e","O","f">>
P_propertyIsEnumerable ==
    <<"p","r","o","p","e","r","t","y","I","s","E","n","u","m","e","r","a","b","l","e">>
P_toLocaleString == <<"t","o","L","o","c","a","l","e","S","t","r","i","n","g">>
P_defineGetter == <<"_","_","d","e","f","i","n","e","G","e","t","t","e","r","_","_">>
P_defineSetter == <<"_","_","d","e","f","i","n","e","S","e","t","t","e","r","_","_">>
P_lookupGetter == <<"_","_","l","o","o","k","u","p","G","e","t","t","e","r","_","_">>
P_lookupSetter == <<"_","_","l","o","o","k","u","p","S","e","t","t","e","r","_","_">>
P_proto == <<"_","_","p","r","o","t","o","_","_">>

ObjectPrototypeMethods ==
    {P_toString, P_valueOf, P_hasOwnProperty, P_isPrototypeOf, P_propertyIsEnumerable,
     P_toLocaleString, P_defineGetter, P_defineSetter, P_lookupGetter, P_lookupSetter}

\* programNames[key]
Property(key) ==
    IF key \in DOMAIN programNames THEN Str(programNames[key])
    ELSE IF key = P_constructor THEN [t |-> "function", v |-> <<"O","b","j","e","c","t">>]
    ELSE IF key \in ObjectPrototypeMethods THEN [t |-> "function", v |-> key]
    ELSE IF key = P_proto THEN [t |-> "object", v |-> <<>>]
    ELSE Undefined

\* formattedText: the slots of the fixed template, in its order; the literal
\* text between them is the same in every result.
formatInquiry(data, timestamp) ==
    LET looked == Property(Render(data.preferredProgram))
        programName == IF Truthy(looked) THEN looked ELSE data.preferredProgram
        message == IF Truthy(data.message) THEN data.message ELSE Str(NoMessage)
    IN  [parentName       |-> data.parentName,
         childName        |-> data.childName,
         childAge         |-> data.childAge,
         email            |-> data.email,
         phone            |-> data.phone,
         preferredProgram |-> data.preferredProgram,
         message          |-> message,
         formattedText    |->
            [parentName      |-> Render(data.parentName),
             email           |-> Render(data.email),
             phone           |-> Render(data.phone),
             childName       |-> Render(data.childName),
             childAge        |-> Render(data.childAge),
             programInterest |-> Render(programName),
             message         |-> Render(message),
             receivedAt      |-> timestamp]]

\* What new Date().toLocaleString('ja-JP', ...) may read at format time.
Timestamps == {"2025/1/1 9:00:00", "2025/1/1 9:00:01"}

---------------------------------------------------------------------------
(* sendToTelegram, src/server.ts 116-134, and what axios.post can do. *)

StatusCodes == {200, 201, 204, 304, 400, 401, 429, 500}

\* What becomes of the outbound call: a response with a status, a network
\* error, or no answer within the timeout of 10000 ms.
Outcomes ==
    {[kind |-> "status", status |-> n] : n \in StatusCodes}
    \cup {[kind |-> "networkError", status |-> 0], [kind |-> "timeout", status |-> 0]}

NoCall == [kind |-> "none", status |-> 0]
InFlight == [kind |-> "inFlight", status |-> 0]

\* axios resolves on a 2xx status (its default validateStatus) and rejects on
\* every other status, on a network error and on a timeout.
axiosResolves(outcome) ==
    outcome.kind = "status" /\ outcome.status >= 200 /\ outcome.status < 300

\* The value sendToTelegram returns; a rejection is caught and gives false.
sendToTelegramAny2xx(outcome) == axiosResolves(outcome)

sendToTelegram(outcome) ==
    IF axiosResolves(outcome) THEN outcome.status = 200 ELSE FALSE

---------------------------------------------------------------------------
(* The requests of the model: every combination of these field values. *)

\* Largest number sent as childAge (the numbers 0..MaxAgeInput are sent).
MaxAgeInput == 13

ValidPhone == <<"0","9","0","-","1","2","3","4","-","5","6","7","8">>
ValidEmail == <<"A","@","b",".","c","o">>

ParentNameInputs ==
    {Str(<<"J","o">>), Str(<<"J","<">>), Undefined}
ChildNameInputs ==
    {Str(<<" ","A","l">>), Str(<<"A">>), Arr(<<<<"A","l">>>>)}
ChildAgeInputs ==
    {Num(IntToText(n)) : n \in 0..MaxAgeInput}
    \cup {Str(<<"7">>), Str(<<"1",".","5">>), Undefined, Arr(<<>>)}
EmailInputs ==
    {Str(ValidEmail), Str(<<"a","b">>), Arr(<<ValidEmail>>)}
PhoneInputs ==
    {Str(ValidPhone), Str(<<"0","9","0">>), Arr(<<ValidPhone>>)}
PreferredProgramInputs ==
    {Undefined, Str(K_preschool), Str(<<"x","y","z">>), Arr(<<K_toddlers, K_preschool>>)}
MessageInputs ==
    {Undefined, Str(<<"a","<","b","&">>), Str(<<" ">>)}

Requests ==
    {[parentName |-> a, childName |-> b, childAge |-> c, email |-> d, phone |-> e,
      preferredProgram |-> f, message |-> g] :
        a \in ParentNameInputs, b \in ChildNameInputs, c \in ChildAgeInputs,
        d \in EmailInputs, e \in PhoneInputs, f \in PreferredProgramInputs,
        g \in MessageInputs}

---------------------------------------------------------------------------
(* The hamburger menu of the page, src/server.ts 283-352: the listeners the *)
(* DOMContentLoaded handler installs when .hamburger and .nav-menu exist.   *)

\* The width from which the layout is the desktop one.
Breakpoint == 768

Widths == (Breakpoint - WidthSpan)..(Breakpoint + WidthSpan)

\* event.key of the keys pressed.
Keys == {"Escape", "Enter", "Tab"}

\* setAttribute turns its boolean argument into text.
BoolText(b) == IF b THEN "true" ELSE "false"

\* classList.add('active') in place of toggle.
toggleAdd(active) == TRUE

\* classList.toggle('active')
toggle(active) == ~active

\* The three statements every closing listener runs.
CloseMenu ==
    /\ ariaExpanded' = "false"
    /\ navActive' = FALSE
    /\ overflow' = ""

\* A click on the hamburger: its listener runs; the click then reaches the
\* document's listener, which leaves a click on the hamburger alone.
ClickHamburger ==
    /\ LET isExpanded == ariaExpanded = "true"
       IN  /\ ariaExpanded' = BoolText(~isExpanded)
           /\ navActive' = toggle(navActive)
           /\ overflow' = IF ~isExpanded THEN "hidden" ELSE ""
    /\ UNCHANGED <<innerWidth, activeElement, handlerVars, fnVars>>

\* A click on a link of the nav menu: its listener closes the menu below the
\* breakpoint; the document's listener leaves a click inside the menu alone.
ClickNavLink ==
    /\ IF innerWidth < Breakpoint
       THEN CloseMenu
       ELSE UNCHANGED <<ariaExpanded, navActive, overflow>>
    /\ UNCHANGED <<innerWidth, activeElement, handlerVars, fnVars>>

\* A click outside the menu and the hamburger: the document's listener.
ClickOutside ==
    /\ IF innerWidth < Breakpoint /\ navActive
       THEN CloseMenu
       ELSE UNCHANGED <<ariaExpanded, navActive, overflow>>
    /\ UNCHANGED <<innerWidth, activeElement, handlerVars, fnVars>>

\* The window takes a new width and the resize listener runs.
Resize ==
    /\ \E w \in Widths :
          /\ innerWidth' = w
          /\ IF w >= Breakpoint
             THEN CloseMenu
             ELSE UNCHANGED <<ariaExpanded, navActive, overflow>>
    /\ UNCHANGED <<activeElement, handlerVars, fnVars>>

\* A key goes down: Escape closes an open menu and gives the hamburger the
\* focus.
KeyDown ==
    /\ \E key \in Keys :
          IF key = "Escape" /\ navActive
          THEN CloseMenu /\ activeElement' = "hamburger"
          ELSE UNCHANGED <<ariaExpanded, navActive, overflow, activeElement>>
    /\ UNCHANGED <<innerWidth, handlerVars, fnVars>>

\* No page is loaded: the menu's state has its values at load.
NoPage ==
    /\ ariaExpanded = "null"
    /\ navActive = FALSE
    /\ overflow = ""
    /\ innerWidth = Breakpoint
    /\ activeElement = "body"

---------------------------------------------------------------------------
(* The handler of POST /api/inquiry, src/server.ts 188-247. *)

NoData == [f \in FieldSet |-> Undefined]
NoFormatted == [formattedText |-> <<>>]
\* message and error are "" where the JSON body has no such key.
NoResponse == [status |-> 0, success |-> FALSE, message |-> "", error |-> "", errors |-> <<>>]

Response400(errs) ==
    [status |-> 400, success |-> FALSE, message |-> "",
     error |-> "Validation failed", errors |-> errs]
Response200 ==
    [status |-> 200, success |-> TRUE,
     message |-> "Thank you! Your inquiry has been received. We will contact you within 24 hours.",
     error |-> "", errors |-> <<>>]
\* The body the error-handling middleware sends.
ResponseUnexpected ==
    [status |-> 500, success |-> FALSE, message |-> "",
     error |-> "An unexpected error occurred", errors |-> <<>>]
Response500 ==
    [status |-> 500, success |-> FALSE, message |-> "",
     error |-> "An internal server error occurred. Please try again later.",
     errors |-> <<>>]

\* !errors.isEmpty()
RejectsOnlyMany(errs) == Len(errs) > 1

Rejects(errs) == errs # <<>>

\* The object literal sanitizedData of rawData = req.body.
sanitizedDataOf(rawData) ==
    [parentName       |-> sanitizeInput(rawData.parentName),
     childName        |-> sanitizeInput(rawData.childName),
     childAge         |-> LET text == toStringMethod(rawData.childAge)
                          IN  IF IsThrown(text) THEN Thrown ELSE parseInt(text.v),
     email            |-> sanitizeEmail(rawData.email),
     phone            |-> sanitizePhone(rawData.phone),
     preferredProgram |-> IF Truthy(rawData.preferredProgram)
                          THEN rawData.preferredProgram ELSE Str(<<>>),
     message          |-> IF Truthy(rawData.message)
                          THEN sanitizeInput(rawData.message) ELSE Str(<<>>)]

\* Whether evaluating the object literal throws.
Throws(data) == \E f \in FieldSet : IsThrown(data[f])

\* The TypeError of calling method on x, which has no such method: undefined
\* has no properties at all (V8's messages).
NoMethodError(name, method, x) ==
    IF x.t = "undefined"
    THEN "TypeError: Cannot read properties of undefined (reading '" \o method \o "')"
    ELSE "TypeError: " \o name \o "." \o method \o " is not a function"

\* The error that building sanitizedData of rawData throws: the properties of
\* the object literal are evaluated in order, so the first failing one raises.
thrownError(rawData) ==
    IF IsThrown(toStringMethod(rawData.childAge))
    THEN NoMethodError("rawData.childAge", "toString", rawData.childAge)
    ELSE IF IsThrown(sanitizeEmail(rawData.email))
    THEN NoMethodError("email", "toLowerCase", rawData.email)
    ELSE NoMethodError("phone", "replace", rawData.phone)

\* A catch block that puts the error's text in the body.
catchBlockLeaky(error) == [Response500 EXCEPT !.error = error]

\* catch (error): the error goes to console.error only; the body is fixed.
catchBlock(error) == Response500

\* A handler that returns without answering when the notifier failed.
AfterTelegramStall(success) == IF success THEN "telegramDone" ELSE "telegramFailed"

\* The handler's position after sendToTelegram has returned.
AfterTelegram(success) == "telegramDone"

\* What express.json() passes to next(err) for a body it cannot take: one that
\* is no JSON, one over its limit of 100kb.
BodyParserErrors == {"SyntaxError", "PayloadTooLargeError"}

\* express.json() failed on the body: express skips the route and calls the
\* error-handling middleware, which logs the error and answers 500.
ErrorMiddleware ==
    /\ pc = "received"
    /\ parseError # "none"
    /\ response' = ResponseUnexpected
    /\ events' = events \o <<"error", "respond">>
    /\ pc' = "done"
    /\ UNCHANGED <<request, body, errors, sanitizedData, formattedInquiry,
                   telegramSuccess, emailSuccess, outbound, parseError, fnVars, menuVars>>

\* The inquiryValidation middleware.
RunValidation ==
    /\ pc = "received"
    /\ parseError = "none"
    /\ LET r == RunValidationChains(body)
       IN  /\ body' = r.body
           /\ errors' = r.errors
    /\ pc' = "validated"
    /\ events' = Append(events, "validate")
    /\ UNCHANGED <<request, sanitizedData, formattedInquiry, telegramSuccess,
                   emailSuccess, outbound, response, parseError, fnVars, menuVars>>

\* errors is not empty: 400 with the list of errors, and the handler returns.
Reject ==
    /\ pc = "validated"
    /\ Rejects(errors)
    /\ response' = Response400(errors)
    /\ events' = Append(events, "respond")
    /\ pc' = "done"
    /\ UNCHANGED <<request, body, errors, sanitizedData, formattedInquiry,
                   telegramSuccess, emailSuccess, outbound, parseError, fnVars, menuVars>>

\* sanitizedData is built; a sanitizer that throws takes the handler to its
\* catch block, which answers 500.
Sanitize ==
    /\ pc = "validated"
    /\ ~Rejects(errors)
    /\ LET data == sanitizedDataOf(body)
       IN  \/ /\ ~Throws(data)
              /\ sanitizedData' = data
              /\ pc' = "sanitized"
              /\ events' = Append(events, "sanitize")
              /\ UNCHANGED response
           \/ /\ Throws(data)
              /\ response' = catchBlock(thrownError(body))
              /\ pc' = "done"
              /\ events' = events \o <<"throw", "respond">>
              /\ UNCHANGED sanitizedData
    /\ UNCHANGED <<request, body, errors, formattedInquiry, telegramSuccess,
                   emailSuccess, outbound, parseError, fnVars, menuVars>>

Format ==
    /\ pc = "sanitized"
    /\ \E ts \in Timestamps : formattedInquiry' = formatInquiry(sanitizedData, ts)
    /\ pc' = "formatted"
    /\ events' = Append(events, "formatInquiry")
    /\ UNCHANGED <<request, body, errors, sanitizedData, telegramSuccess,
                   emailSuccess, outbound, response, parseError, fnVars, menuVars>>

\* sendToTelegram is called and awaits axios.post.
CallTelegram ==
    /\ pc = "formatted"
    /\ outbound' = InFlight
    /\ pc' = "telegramPending"
    /\ events' = Append(events, "sendToTelegram:call")
    /\ UNCHANGED <<request, body, errors, sanitizedData, formattedInquiry,
                   telegramSuccess, emailSuccess, response, parseError, fnVars, menuVars>>

\* axios.post settles, one way or another, and sendToTelegram returns.
TelegramSettles ==
    /\ pc = "telegramPending"
    /\ \E o \in Outcomes :
          /\ outbound' = o
          /\ telegramSuccess' = sendToTelegram(o)
          /\ pc' = AfterTelegram(sendToTelegram(o))
    /\ events' = Append(events, "sendToTelegram:return")
    /\ UNCHANGED <<request, body, errors, sanitizedData, formattedInquiry,
                   emailSuccess, response, parseError, fnVars, menuVars>>

\* sendConfirmationEmail is called, logs, and awaits its 500 ms timer.
CallConfirmationEmail ==
    /\ pc = "telegramDone"
    /\ pc' = "emailPending"
    /\ events' = Append(events, "sendConfirmationEmail:call")
    /\ UNCHANGED <<request, body, errors, sanitizedData, formattedInquiry,
                   telegramSuccess, emailSuccess, outbound, response, parseError, fnVars, menuVars>>

\* The timer fires and sendConfirmationEmail returns true.
ConfirmationEmailReturns ==
    /\ pc = "emailPending"
    /\ emailSuccess' = TRUE
    /\ pc' = "emailDone"
    /\ events' = Append(events, "sendConfirmationEmail:return")
    /\ UNCHANGED <<request, body, errors, sanitizedData, formattedInquiry,
                   telegramSuccess, outbound, response, parseError, fnVars, menuVars>>

\* res.status(200).json(...)
Respond ==
    /\ pc = "emailDone"
    /\ response' = Response200
    /\ pc' = "done"
    /\ events' = Append(events, "respond")
    /\ UNCHANGED <<request, body, errors, sanitizedData, formattedInquiry,
                   telegramSuccess, emailSuccess, outbound, parseError, fnVars, menuVars>>

\* The request has gone through express.json(): its body is parsed, or the
\* parser raised an error and req.body holds nothing.
Init ==
    /\ \/ request \in Requests /\ parseError = "none"
       \/ request = NoData /\ parseError \in BodyParserErrors
    /\ body = request
    /\ pc = "received"
    /\ errors = <<>>
    /\ sanitizedData = NoData
    /\ formattedInquiry = NoFormatted
    /\ telegramSuccess = FALSE
    /\ emailSuccess = FALSE
    /\ outbound = NoCall
    /\ response = NoResponse
    /\ events = <<>>
    /\ fnName = "none"
    /\ fnArg = Undefined
    /\ fnOut = <<>>
    /\ NoPage

Next ==
    \/ ErrorMiddleware
    \/ RunValidation
    \/ Reject
    \/ Sanitize
    \/ Format
    \/ CallTelegram
    \/ TelegramSettles
    \/ CallConfirmationEmail
    \/ ConfirmationEmailReturns
    \/ Respond

Spec == Init /\ [][Next]_vars

\* The parsed requests of the runs under fairness: every way through the
\* handler (rejected, sanitizer throwing, answered) with the optional fields
\* left out.
LiveRequests ==
    {r \in Requests :
        /\ r.childName = Str(<<" ","A","l">>)
        /\ r.childAge \in {Num(<<"7">>), Num(<<"1","3">>), Arr(<<>>)}
        /\ r.preferredProgram = Undefined
        /\ r.message = Undefined}

InitLive == Init /\ (request \in LiveRequests \/ parseError # "none")

\* The event loop runs every continuation that is ready: the validation
\* middleware calls next(), axios.post settles (by its timeout of 10000 ms at
\* the latest) and the timer of 500 ms fires.
SpecLive == InitLive /\ [][Next]_vars /\ WF_vars(Next)

---------------------------------------------------------------------------
(* Function-level runs: one function applied to one argument drawn from a  *)
(* bounded set; a sanitizer is applied again to its own result.            *)

Alphabet == {" ", "U+000B", "a", "A", "<", ">", "&", "\"", "'"}
Texts == UNION {[1..n -> Alphabet] : n \in 0..MaxLen}
TextValues == {Str(s) : s \in Texts}
NonTextValues == {Undefined, Num(<<"5">>), Arr(<<<<"a">>>>)}

XyzUnknown == <<"x","y","z","-","u","n","k","n","o","w","n">>
ProgramTexts ==
    AllowedPrograms \cup {XyzUnknown, <<"x">>, P_constructor, P_toString, P_proto}

FormatInputs ==
    {[parentName |-> Str(<<"J","o">>), childName |-> Str(<<"A","l">>),
      childAge |-> Num(<<"5">>), email |-> Str(<<"a","@","b",".","c","o">>),
      phone |-> Str(ValidPhone), preferredProgram |-> Str(p), message |-> m] :
        p \in ProgramTexts, m \in {Str(<<>>), Str(<<"h","i">>)}}

\* The argument of the next application: the last result, else fnArg.
Current == IF fnOut = <<>> THEN fnArg ELSE fnOut[Len(fnOut)]

ApplySanitizeInput ==
    /\ fnName = "sanitizeInput"
    /\ Len(fnOut) < MaxApply
    /\ fnOut' = Append(fnOut, sanitizeInput(Current))
    /\ UNCHANGED <<fnName, fnArg, handlerVars, menuVars>>

ApplySanitizeEmail ==
    /\ fnName = "sanitizeEmail"
    /\ Len(fnOut) < MaxApply
    /\ ~IsThrown(Current)
    /\ fnOut' = Append(fnOut, sanitizeEmail(Current))
    /\ UNCHANGED <<fnName, fnArg, handlerVars, menuVars>>

ApplyFormatInquiry ==
    /\ fnName = "formatInquiry"
    /\ fnOut = <<>>
    /\ \E ts \in Timestamps : fnOut' = <<formatInquiry(fnArg, ts)>>
    /\ UNCHANGED <<fnName, fnArg, handlerVars, menuVars>>

InitFn ==
    /\ \/ fnName = "sanitizeInput" /\ fnArg \in TextValues \cup NonTextValues
       \/ fnName = "sanitizeEmail" /\ fnArg \in TextValues \cup NonTextValues
       \/ fnName = "formatInquiry" /\ fnArg \in FormatInputs
    /\ fnOut = <<>>
    /\ pc = "idle"
    /\ parseError = "none"
    /\ request = NoData
    /\ body = NoData
    /\ errors = <<>>
    /\ sanitizedData = NoData
    /\ formattedInquiry = NoFormatted
    /\ telegramSuccess = FALSE
    /\ emailSuccess = FALSE
    /\ outbound = NoCall
    /\ response = NoResponse
    /\ events = <<>>
    /\ NoPage

NextFn ==
    \/ ApplySanitizeInput
    \/ ApplySanitizeEmail
    \/ ApplyFormatInquiry

SpecFn == InitFn /\ [][NextFn]_vars

---------------------------------------------------------------------------
(* The page with its menu closed at load; the events of the user.          *)

InitMenu ==
    /\ ariaExpanded \in {"null", "false"}
    /\ navActive = FALSE
    /\ overflow = ""
    /\ innerWidth \in Widths
    /\ activeElement = "body"
    /\ pc = "idle"
    /\ parseError = "none"
    /\ request = NoData
    /\ body = NoData
    /\ errors = <<>>
    /\ sanitizedData = NoData
    /\ formattedInquiry = NoFormatted
    /\ telegramSuccess = FALSE
    /\ emailSuccess = FALSE
    /\ outbound = NoCall
    /\ response = NoResponse
    /\ events = <<>>
    /\ fnName = "none"
    /\ fnArg = Undefined
    /\ fnOut = <<>>

NextMenu ==
    \/ ClickHamburger
    \/ ClickNavLink
    \/ ClickOutside
    \/ Resize
    \/ KeyDown

SpecMenu == InitMenu /\ [][NextMenu]_vars

---------------------------------------------------------------------------
(* Properties of the handler (specification Spec).                         *)

\* Event e has happened.
Called(e) == \E i \in 1..Len(events) : events[i] = e
\* The validation middleware has run.
Validated == Called("validate")

\* C1: a request whose validation produced an error is answered 400 with the
\* errors, and nothing after the check runs for it: no sanitizing, no
\* formatInquiry, no sendToTelegram, no sendConfirmationEmail.  Whatever
\* reaches formatInquiry or sendToTelegram was validated with zero errors, and
\* a request that lacks a required field does produce an error.
C1_InvalidRejectedBeforeAnySideEffect ==
    /\ (Validated /\ errors # <<>>) =>
          /\ ~Called("sanitize") /\ ~Called("formatInquiry")
          /\ ~Called("sendToTelegram:call") /\ ~Called("sendConfirmationEmail:call")
          /\ outbound = NoCall
          /\ pc = "done" => response = Response400(errors)
    /\ (Called("formatInquiry") \/ Called("sendToTelegram:call")) =>
          Called("validate") /\ errors = <<>>
    /\ (Validated /\ \E f \in RequiredFields : request[f].t = "undefined") =>
          errors # <<>>

C1_Witness ==
    /\ pc = "done"
    /\ response.status = 400
    /\ Len(response.errors) >= 2
    /\ request.childAge = Num(<<"1","3">>)

\* C2: every request that passed validation is answered 200 with the fixed
\* acknowledgment, whatever the notifier and the confirmation sender did.
C2_ValidatedAlwaysAnswered200 ==
    (pc = "done" /\ Validated /\ errors = <<>>) => response = Response200

\* The notifier's and the confirmation sender's calls and returns, and the
\* response, in the order they happened.
TheCalls ==
    SelectSeq(events, LAMBDA e : e \in {"sendToTelegram:call", "sendToTelegram:return",
                                        "sendConfirmationEmail:call",
                                        "sendConfirmationEmail:return", "respond"})

\* C3: in a validated request sendToTelegram is called once and returns
\* before sendConfirmationEmail is called, which is called once and returns
\* before the response is sent; nothing is retried.
C3_NotifyThenConfirmThenRespond ==
    (pc = "done" /\ Validated /\ errors = <<>>) =>
        TheCalls = <<"sendToTelegram:call", "sendToTelegram:return",
                     "sendConfirmationEmail:call", "sendConfirmationEmail:return",
                     "respond">>

\* C4: sendToTelegram returns to its caller in every case, with true exactly
\* when the endpoint answered with status 200, and with false after a network
\* error, a timeout or any other status.
C4_TelegramTrueOnlyOn200 ==
    Called("sendToTelegram:return") =>
        /\ pc \in {"telegramDone", "emailPending", "emailDone", "done"}
        /\ telegramSuccess = (outbound.kind = "status" /\ outbound.status = 200)
        /\ outbound.kind \in {"networkError", "timeout"} => ~telegramSuccess

C4_Witness ==
    /\ pc = "telegramDone"
    /\ outbound.kind = "timeout"
    /\ ~telegramSuccess

\* The number or decimal text x is an integer from 2 to 12.
IsIntegerFrom2To12(x) ==
    /\ x.t \in {"number", "string"}
    /\ x.v \in {IntToText(n) : n \in 2..12}

\* validationResult holds no error for childAge.
ChildAgeAccepted == \A i \in 1..Len(errors) : errors[i].field # "childAge"

\* C5: the childAge rule accepts a value exactly when it is an integer from 2 to
\* 12: no error is reported for childAge if and only if the childAge sent is
\* such an integer (as a number or as its decimal text); a request with any
\* other childAge, a missing one included, is answered 400.
C5_ChildAgeAcceptedIffInteger2To12 ==
    Validated =>
        /\ ChildAgeAccepted <=> IsIntegerFrom2To12(request.childAge)
        /\ (pc = "done" /\ ~IsIntegerFrom2To12(request.childAge)) => response.status = 400

TextFields == {"parentName", "childName", "email", "phone", "preferredProgram", "message"}

\* out is what one of the three sanitizers returns for raw.
IsSanitizerOutput(out, raw) ==
    \/ SameValue(out, sanitizeInput(raw))
    \/ SameValue(out, sanitizeEmail(raw))
    \/ SameValue(out, sanitizePhone(raw))

\* C9: every text field of sanitizedData is what a sanitization function
\* returns for the same field of the raw body.
C9_EveryTextFieldSanitized ==
    Called("sanitize") =>
        \A f \in TextFields : IsSanitizerOutput(sanitizedData[f], body[f])

FieldIndex(f) == CHOOSE i \in 1..Len(Fields) : Fields[i] = f

\* The i-th field's chain, run alone on the field as sent, finds a failure.
FieldFails(i) == RunChain(inquiryValidation[i], request[Fields[i]]).errs # <<>>

\* C10: no rule stops the validator: every field whose own chain finds a
\* failure has at least one error in the list, the errors come in the order the
\* fields are declared, and the 400 response carries the whole list.
C10_AllFieldsCheckedInDeclarationOrder ==
    Validated =>
        /\ \A i \in 1..Len(Fields) :
              FieldFails(i) => \E k \in 1..Len(errors) : errors[k].field = Fields[i]
        /\ \A k \in 1..(Len(errors) - 1) :
              FieldIndex(errors[k].field) <= FieldIndex(errors[k + 1].field)
        /\ (pc = "done" /\ errors # <<>>) => response.errors = errors

C10_Witness ==
    /\ pc = "done"
    /\ Cardinality({response.errors[k].field : k \in 1..Len(response.errors)}) >= 4
    /\ response.errors[1].field = "parentName"

\* The handler is in its catch block's wake: an error was thrown in the try.
Faulted == Called("throw")

\* C11: a fault raised in the pipeline is caught by the handler and answered
\* with status 500 and the fixed generic body {success: false, error: <fixed
\* text>}, whatever the fault was; the body carries nothing of the fault, and
\* the handler ends with that response sent.  A validated body whose
\* sanitizing throws is always answered this way.
C11_FaultAnsweredGeneric500 ==
    /\ Faulted =>
          /\ pc = "done"
          /\ events[Len(events)] = "respond"
          /\ response.status = 500
          /\ response.success = FALSE
          /\ response.error = "An internal server error occurred. Please try again later."
          /\ response.message = ""
          /\ response.errors = <<>>
    /\ (Validated /\ pc # "validated" /\ ~Rejects(errors)
            /\ Throws(sanitizedDataOf(body))) => Faulted

\* A validated request whose email is an array made sanitizeEmail throw, and
\* the catch block answered.
C11_Witness ==
    /\ Faulted
    /\ request.email.t = "array"
    /\ request.phone.t = "string"
    /\ errors = <<>>
    /\ response.status = 500

\* How many times res.json was called.
Responses == Cardinality({i \in 1..Len(events) : events[i] = "respond"})

\* C12: every request reaches the end of the handler with exactly one response
\* sent, of status 400, 200 or 500: never two responses, and, the outbound
\* call returning or timing out, never none.
C12_ExactlyOneResponseEventually ==
    /\ [](/\ Responses <= 1
          /\ (Responses = 1) <=> (pc = "done")
          /\ (pc = "done") <=> (response # NoResponse)
          /\ (pc = "done") => response.status \in {200, 400, 500})
    /\ <>(pc = "done" /\ Responses = 1)

\* The outbound call timed out and the request was still answered, once.
C12_Witness ==
    /\ pc = "done"
    /\ outbound.kind = "timeout"
    /\ Responses = 1
    /\ response.status = 200

---------------------------------------------------------------------------
(* Properties of the functions (specification SpecFn).                     *)

\* The number of places where text e occurs in text s.
Occurrences(e, s) ==
    Cardinality({i \in 1..(Len(s) - Len(e) + 1) : SubSeq(s, i, i + Len(e) - 1) = e})

CountChar(c, s) == Cardinality({i \in 1..Len(s) : s[i] = c})

Amp == <<"&","a","m","p",";">>
Quot == <<"&","q","u","o","t",";">>
Apos == <<"&","#","x","2","7",";">>

\* What C6 asks of one application of sanitizeInput: input in, out returned.
SanitizeInputOk(in, out) ==
    /\ out.t = "string"
    /\ in.t # "string" => out.v = <<>>
    /\ in.t = "string" =>
          /\ \A i \in 1..Len(out.v) : out.v[i] \notin {"<", ">", "\"", "'"}
          /\ \A i \in 1..Len(out.v) :
                out.v[i] = "&" =>
                    \E e \in {Amp, Quot, Apos} :
                        i + Len(e) - 1 <= Len(out.v) /\ SubSeq(out.v, i, i + Len(e) - 1) = e
          /\ Occurrences(Amp, out.v) = CountChar("&", in.v)
          /\ Occurrences(Quot, out.v) = CountChar("\"", in.v)
          /\ Occurrences(Apos, out.v) = CountChar("'", in.v)

\* C6: the result of sanitizeInput holds no '<' and no '>', holds each & " '
\* of the input as its entity and none of them bare; an input that is no text
\* gives the empty text.
C6_SanitizeInputEscapes ==
    fnName = "sanitizeInput" =>
        \A k \in 1..Len(fnOut) :
            SanitizeInputOk(IF k = 1 THEN fnArg ELSE fnOut[k - 1], fnOut[k])

C6_Witness ==
    /\ fnName = "sanitizeInput"
    /\ fnArg = Str(<<"<", "&", "'">>)
    /\ Len(fnOut) >= 1
    /\ fnOut[1] = Str(Amp \o Apos)

\* C7: sanitizeEmail applied to its own result returns that result.
C7_SanitizeEmailIdempotent ==
    fnName = "sanitizeEmail" =>
        \A k \in 2..Len(fnOut) : SameValue(fnOut[k], fnOut[k - 1])

C7_Witness ==
    /\ fnName = "sanitizeEmail"
    /\ fnArg = Str(<<" ", " ", "A">>)
    /\ Len(fnOut) >= 2
    /\ fnOut[1] = Str(<<"a">>)

\* C8: formatInquiry shows the table's label for a known key ("preschool"
\* gives "Preschool (Ages 4-5)") and shows any other non-empty
\* preferredProgram unchanged.
C8_ProgramLabelOrVerbatim ==
    (fnName = "formatInquiry" /\ fnOut # <<>>) =>
        LET p == fnArg.preferredProgram.v
            shown == fnOut[1].formattedText.programInterest
        IN  /\ p = K_preschool => shown = L_preschool
            /\ p = K_toddlers => shown = L_toddlers
            /\ p = K_lower_elementary => shown = L_lower_elementary
            /\ p = K_upper_elementary => shown = L_upper_elementary
            /\ p = K_not_sure => shown = L_not_sure
            /\ (p \notin AllowedPrograms /\ p # <<>>) => shown = p

---------------------------------------------------------------------------
(* Properties of the hamburger menu (specification SpecMenu).              *)

\* C13: from a closed menu, after any sequence of hamburger clicks, nav-link
\* clicks, outside clicks, resizes and key presses, the hamburger's
\* aria-expanded is 'true' exactly when the nav menu has class 'active',
\* exactly when the body's overflow is 'hidden'.
C13_MenuStateAgrees ==
    /\ (ariaExpanded = "true") <=> navActive
    /\ navActive <=> (overflow = "hidden")

\* The menu is open again after Escape closed it, at a desktop width.
C13_Witness ==
    /\ ariaExpanded = "true"
    /\ navActive
    /\ overflow = "hidden"
    /\ activeElement = "hamburger"
    /\ innerWidth >= Breakpoint

====
